---- MODULE Spec2Model ----
(***************************************************************************)
(* perfect_rand: a Feistel network (a port of masscan's Blackrock cipher)   *)
(* with cycle walking, src/src/lib.rs.                                      *)
(*                                                                          *)
(* PerfectRng::new derives the two half widths from `range`; encrypt runs   *)
(* the rounds two per loop iteration; shuffle re-applies encrypt until the  *)
(* value is below `range`.  The driver is the crate's test, tests::verify,  *)
(* which counts how often every output is produced, followed by arbitrary   *)
(* calls of the public shuffle.                                             *)
(*                                                                          *)
(* Numbers.  A u64 that the program keeps small (range, the masks, left,    *)
(* right, c, j) is a natural number.  The seed and the words the round      *)
(* function computes use all their bits; they are tuples of 16-bit limbs,   *)
(* most significant first: a u64 is <<l3, l2, l1, l0>>, an S-box entry      *)
(* (u32) is <<hi, lo>>.                                                     *)
(***************************************************************************)
EXTENDS Naturals, Sequences, FiniteSets

VARIABLES
  range, seed, rounds, a_bits, a_mask, b_mask,  \* the fields of PerfectRng
  pc,                                           \* position of the running code
  caller,                                       \* who called shuffle: "verify" | "any"
  m, c,                                         \* shuffle: its argument and its local c
  left, right, j,                               \* encrypt: its locals
  i, list                                       \* tests::verify: loop index and counters

vars == <<range, seed, rounds, a_bits, a_mask, b_mask, pc, caller, m, c, left, right, j, i, list>>

\* Bounds of the model.
MaxRange == 12
MaxRounds == 4
MaxInput == MaxRange

\* Seeds passed to new: 0, all ones, and 0x0123456789ABCDEF.
Seeds ==
  { <<\h0000, \h0000, \h0000, \h0000>>,
    <<\hFFFF, \hFFFF, \hFFFF, \hFFFF>>,
    <<\h0123, \h4567, \h89AB, \hCDEF>> }

(***************************************************************************)
(* u64 arithmetic on limbs.  The helpers are functions, so that an argument *)
(* is evaluated once, when the function is applied.                         *)
(***************************************************************************)
Limb == 2^16

W32 == Nat \X Nat

W64 == Nat \X Nat \X Nat \X Nat

\* x & y
BitAnd[x \in Nat, y \in Nat] ==
  IF x = 0 \/ y = 0 THEN 0
  ELSE (IF x % 2 = 1 /\ y % 2 = 1 THEN 1 ELSE 0) + 2 * BitAnd[x \div 2, y \div 2]

\* x | y
BitOr[x \in Nat, y \in Nat] ==
  IF x = 0 THEN y
  ELSE IF y = 0 THEN x
  ELSE (IF x % 2 = 1 \/ y % 2 = 1 THEN 1 ELSE 0) + 2 * BitOr[x \div 2, y \div 2]

\* x ^ y
BitXor[x \in Nat, y \in Nat] ==
  IF x = 0 THEN y
  ELSE IF y = 0 THEN x
  ELSE ((x + y) % 2) + 2 * BitXor[x \div 2, y \div 2]

\* `n as u64` for a number below 2^31.
U64[n \in Nat] == <<0, 0, n \div Limb, n % Limb>>

\* `x as u64` for a u32 S-box entry.
U32AsU64[w \in W32] == <<0, 0, w[1], w[2]>>

\* The number a u64 below 2^31 stands for.
Val[x \in W64] == x[3] * Limb + x[4]

\* Limb k of x, counted from the least significant one; 0 outside the word.
LimbAt[x \in W64, k \in Nat] == IF k \in 0..3 THEN x[4 - k] ELSE 0

\* x >> n, for 0 <= n < 64.
Shr64[x \in W64, n \in 0..63] ==
  LET q == n \div 16
      r == n % 16
      Part(k) == (LimbAt[x, k + q] \div 2^r) + (LimbAt[x, k + q + 1] % 2^r) * 2^(16 - r)
  IN  <<Part(3), Part(2), Part(1), Part(0)>>

\* x << n, for 0 <= n < 64; the bits shifted out are lost.
Shl64[x \in W64, n \in 0..63] ==
  LET q == n \div 16
      r == n % 16
      Lo(k) == IF k >= q THEN LimbAt[x, k - q] ELSE 0
      Below(k) == IF k >= q + 1 THEN LimbAt[x, k - q - 1] ELSE 0
      Part(k) == (Lo(k) % 2^(16 - r)) * 2^r + (Below(k) \div 2^(16 - r))
  IN  <<Part(3), Part(2), Part(1), Part(0)>>

Or64[x \in W64, y \in W64] ==
  <<BitOr[x[1], y[1]], BitOr[x[2], y[2]], BitOr[x[3], y[3]], BitOr[x[4], y[4]]>>

Xor64[x \in W64, y \in W64] ==
  <<BitXor[x[1], y[1]], BitXor[x[2], y[2]], BitXor[x[3], y[3]], BitXor[x[4], y[4]]>>

And64[x \in W64, y \in W64] ==
  <<BitAnd[x[1], y[1]], BitAnd[x[2], y[2]], BitAnd[x[3], y[3]], BitAnd[x[4], y[4]]>>

\* x + y on u64 (wrapping; the program's sums stay far below 2^64).
Add64[x \in W64, y \in W64] ==
  LET s0 == x[4] + y[4]
      s1 == x[3] + y[3] + (s0 \div Limb)
      s2 == x[2] + y[2] + (s1 \div Limb)
      s3 == x[1] + y[1] + (s2 \div Limb)
  IN  <<s3 % Limb, s2 % Limb, s1 % Limb, s0 % Limb>>

(***************************************************************************)
(* The expanded DES S-boxes, src/src/lib.rs:23-161                          *)
(***************************************************************************)
SB1 ==
  <<
    <<\h0101, \h0400>>, <<\h0000, \h0000>>, <<\h0001, \h0000>>, <<\h0101, \h0404>>,
    <<\h0101, \h0004>>, <<\h0001, \h0404>>, <<\h0000, \h0004>>, <<\h0001, \h0000>>,
    <<\h0000, \h0400>>, <<\h0101, \h0400>>, <<\h0101, \h0404>>, <<\h0000, \h0400>>,
    <<\h0100, \h0404>>, <<\h0101, \h0004>>, <<\h0100, \h0000>>, <<\h0000, \h0004>>,
    <<\h0000, \h0404>>, <<\h0100, \h0400>>, <<\h0100, \h0400>>, <<\h0001, \h0400>>,
    <<\h0001, \h0400>>, <<\h0101, \h0000>>, <<\h0101, \h0000>>, <<\h0100, \h0404>>,
    <<\h0001, \h0004>>, <<\h0100, \h0004>>, <<\h0100, \h0004>>, <<\h0001, \h0004>>,
    <<\h0000, \h0000>>, <<\h0000, \h0404>>, <<\h0001, \h0404>>, <<\h0100, \h0000>>,
    <<\h0001, \h0000>>, <<\h0101, \h0404>>, <<\h0000, \h0004>>, <<\h0101, \h0000>>,
    <<\h0101, \h0400>>, <<\h0100, \h0000>>, <<\h0100, \h0000>>, <<\h0000, \h0400>>,
    <<\h0101, \h0004>>, <<\h0001, \h0000>>, <<\h0001, \h0400>>, <<\h0100, \h0004>>,
    <<\h0000, \h0400>>, <<\h0000, \h0004>>, <<\h0100, \h0404>>, <<\h0001, \h0404>>,
    <<\h0101, \h0404>>, <<\h0001, \h0004>>, <<\h0101, \h0000>>, <<\h0100, \h0404>>,
    <<\h0100, \h0004>>, <<\h0000, \h0404>>, <<\h0001, \h0404>>, <<\h0101, \h0400>>,
    <<\h0000, \h0404>>, <<\h0100, \h0400>>, <<\h0100, \h0400>>, <<\h0000, \h0000>>,
    <<\h0001, \h0004>>, <<\h0001, \h0400>>, <<\h0000, \h0000>>, <<\h0101, \h0004>>
  >>

SB2 ==
  <<
    <<\h8010, \h8020>>, <<\h8000, \h8000>>, <<\h0000, \h8000>>, <<\h0010, \h8020>>,
    <<\h0010, \h0000>>, <<\h0000, \h0020>>, <<\h8010, \h0020>>, <<\h8000, \h8020>>,
    <<\h8000, \h0020>>, <<\h8010, \h8020>>, <<\h8010, \h8000>>, <<\h8000, \h0000>>,
    <<\h8000, \h8000>>, <<\h0010, \h0000>>, <<\h0000, \h0020>>, <<\h8010, \h0020>>,
    <<\h0010, \h8000>>, <<\h0010, \h0020>>, <<\h8000, \h8020>>, <<\h0000, \h0000>>,
    <<\h8000, \h0000>>, <<\h0000, \h8000>>, <<\h0010, \h8020>>, <<\h8010, \h0000>>,
    <<\h0010, \h0020>>, <<\h8000, \h0020>>, <<\h0000, \h0000>>, <<\h0010, \h8000>>,
    <<\h0000, \h8020>>, <<\h8010, \h8000>>, <<\h8010, \h0000>>, <<\h0000, \h8020>>,
    <<\h0000, \h0000>>, <<\h0010, \h8020>>, <<\h8010, \h0020>>, <<\h0010, \h0000>>,
    <<\h8000, \h8020>>, <<\h8010, \h0000>>, <<\h8010, \h8000>>, <<\h0000, \h8000>>,
    <<\h8010, \h0000>>, <<\h8000, \h8000>>, <<\h0000, \h0020>>, <<\h8010, \h8020>>,
    <<\h0010, \h8020>>, <<\h0000, \h0020>>, <<\h0000, \h8000>>, <<\h8000, \h0000>>,
    <<\h0000, \h8020>>, <<\h8010, \h8000>>, <<\h0010, \h0000>>, <<\h8000, \h0020>>,
    <<\h0010, \h0020>>, <<\h8000, \h8020>>, <<\h8000, \h0020>>, <<\h0010, \h0020>>,
    <<\h0010, \h8000>>, <<\h0000, \h0000>>, <<\h8000, \h8000>>, <<\h0000, \h8020>>,
    <<\h8000, \h0000>>, <<\h8010, \h0020>>, <<\h8010, \h8020>>, <<\h0010, \h8000>>
  >>

SB3 ==
  <<
    <<\h0000, \h0208>>, <<\h0802, \h0200>>, <<\h0000, \h0000>>, <<\h0802, \h0008>>,
    <<\h0800, \h0200>>, <<\h0000, \h0000>>, <<\h0002, \h0208>>, <<\h0800, \h0200>>,
    <<\h0002, \h0008>>, <<\h0800, \h0008>>, <<\h0800, \h0008>>, <<\h0002, \h0000>>,
    <<\h0802, \h0208>>, <<\h0002, \h0008>>, <<\h0802, \h0000>>, <<\h0000, \h0208>>,
    <<\h0800, \h0000>>, <<\h0000, \h0008>>, <<\h0802, \h0200>>, <<\h0000, \h0200>>,
    <<\h0002, \h0200>>, <<\h0802, \h0000>>, <<\h0802, \h0008>>, <<\h0002, \h0208>>,
    <<\h0800, \h0208>>, <<\h0002, \h0200>>, <<\h0002, \h0000>>, <<\h0800, \h0208>>,
    <<\h0000, \h0008>>, <<\h0802, \h0208>>, <<\h0000, \h0200>>, <<\h0800, \h0000>>,
    <<\h0802, \h0200>>, <<\h0800, \h0000>>, <<\h0002, \h0008>>, <<\h0000, \h0208>>,
    <<\h0002, \h0000>>, <<\h0802, \h0200>>, <<\h0800, \h0200>>, <<\h0000, \h0000>>,
    <<\h0000, \h0200>>, <<\h0002, \h0008>>, <<\h0802, \h0208>>, <<\h0800, \h0200>>,
    <<\h0800, \h0008>>, <<\h0000, \h0200>>, <<\h0000, \h0000>>, <<\h0802, \h0008>>,
    <<\h0800, \h0208>>, <<\h0002, \h0000>>, <<\h0800, \h0000>>, <<\h0802, \h0208>>,
    <<\h0000, \h0008>>, <<\h0002, \h0208>>, <<\h0002, \h0200>>, <<\h0800, \h0008>>,
    <<\h0802, \h0000>>, <<\h0800, \h0208>>, <<\h0000, \h0208>>, <<\h0802, \h0000>>,
    <<\h0002, \h0208>>, <<\h0000, \h0008>>, <<\h0802, \h0008>>, <<\h0002, \h0200>>
  >>

SB4 ==
  <<
    <<\h0080, \h2001>>, <<\h0000, \h2081>>, <<\h0000, \h2081>>, <<\h0000, \h0080>>,
    <<\h0080, \h2080>>, <<\h0080, \h0081>>, <<\h0080, \h0001>>, <<\h0000, \h2001>>,
    <<\h0000, \h0000>>, <<\h0080, \h2000>>, <<\h0080, \h2000>>, <<\h0080, \h2081>>,
    <<\h0000, \h0081>>, <<\h0000, \h0000>>, <<\h0080, \h0080>>, <<\h0080, \h0001>>,
    <<\h0000, \h0001>>, <<\h0000, \h2000>>, <<\h0080, \h0000>>, <<\h0080, \h2001>>,
    <<\h0000, \h0080>>, <<\h0080, \h0000>>, <<\h0000, \h2001>>, <<\h0000, \h2080>>,
    <<\h0080, \h0081>>, <<\h0000, \h0001>>, <<\h0000, \h2080>>, <<\h0080, \h0080>>,
    <<\h0000, \h2000>>, <<\h0080, \h2080>>, <<\h0080, \h2081>>, <<\h0000, \h0081>>,
    <<\h0080, \h0080>>, <<\h0080, \h0001>>, <<\h0080, \h2000>>, <<\h0080, \h2081>>,
    <<\h0000, \h0081>>, <<\h0000, \h0000>>, <<\h0000, \h0000>>, <<\h0080, \h2000>>,
    <<\h0000, \h2080>>, <<\h0080, \h0080>>, <<\h0080, \h0081>>, <<\h0000, \h0001>>,
    <<\h0080, \h2001>>, <<\h0000, \h2081>>, <<\h0000, \h2081>>, <<\h0000, \h0080>>,
    <<\h0080, \h2081>>, <<\h0000, \h0081>>, <<\h0000, \h0001>>, <<\h0000, \h2000>>,
    <<\h0080, \h0001>>, <<\h0000, \h2001>>, <<\h0080, \h2080>>, <<\h0080, \h0081>>,
    <<\h0000, \h2001>>, <<\h0000, \h2080>>, <<\h0080, \h0000>>, <<\h0080, \h2001>>,
    <<\h0000, \h0080>>, <<\h0080, \h0000>>, <<\h0000, \h2000>>, <<\h0080, \h2080>>
  >>

SB5 ==
  <<
    <<\h0000, \h0100>>, <<\h0208, \h0100>>, <<\h0208, \h0000>>, <<\h4200, \h0100>>,
    <<\h0008, \h0000>>, <<\h0000, \h0100>>, <<\h4000, \h0000>>, <<\h0208, \h0000>>,
    <<\h4008, \h0100>>, <<\h0008, \h0000>>, <<\h0200, \h0100>>, <<\h4008, \h0100>>,
    <<\h4200, \h0100>>, <<\h4208, \h0000>>, <<\h0008, \h0100>>, <<\h4000, \h0000>>,
    <<\h0200, \h0000>>, <<\h4008, \h0000>>, <<\h4008, \h0000>>, <<\h0000, \h0000>>,
    <<\h4000, \h0100>>, <<\h4208, \h0100>>, <<\h4208, \h0100>>, <<\h0200, \h0100>>,
    <<\h4208, \h0000>>, <<\h4000, \h0100>>, <<\h0000, \h0000>>, <<\h4200, \h0000>>,
    <<\h0208, \h0100>>, <<\h0200, \h0000>>, <<\h4200, \h0000>>, <<\h0008, \h0100>>,
    <<\h0008, \h0000>>, <<\h4200, \h0100>>, <<\h0000, \h0100>>, <<\h0200, \h0000>>,
    <<\h4000, \h0000>>, <<\h0208, \h0000>>, <<\h4200, \h0100>>, <<\h4008, \h0100>>,
    <<\h0200, \h0100>>, <<\h4000, \h0000>>, <<\h4208, \h0000>>, <<\h0208, \h0100>>,
    <<\h4008, \h0100>>, <<\h0000, \h0100>>, <<\h0200, \h0000>>, <<\h4208, \h0000>>,
    <<\h4208, \h0100>>, <<\h0008, \h0100>>, <<\h4200, \h0000>>, <<\h4208, \h0100>>,
    <<\h0208, \h0000>>, <<\h0000, \h0000>>, <<\h4008, \h0000>>, <<\h4200, \h0000>>,
    <<\h0008, \h0100>>, <<\h0200, \h0100>>, <<\h4000, \h0100>>, <<\h0008, \h0000>>,
    <<\h0000, \h0000>>, <<\h4008, \h0000>>, <<\h0208, \h0100>>, <<\h4000, \h0100>>
  >>

SB6 ==
  <<
    <<\h2000, \h0010>>, <<\h2040, \h0000>>, <<\h0000, \h4000>>, <<\h2040, \h4010>>,
    <<\h2040, \h0000>>, <<\h0000, \h0010>>, <<\h2040, \h4010>>, <<\h0040, \h0000>>,
    <<\h2000, \h4000>>, <<\h0040, \h4010>>, <<\h0040, \h0000>>, <<\h2000, \h0010>>,
    <<\h0040, \h0010>>, <<\h2000, \h4000>>, <<\h2000, \h0000>>, <<\h0000, \h4010>>,
    <<\h0000, \h0000>>, <<\h0040, \h0010>>, <<\h2000, \h4010>>, <<\h0000, \h4000>>,
    <<\h0040, \h4000>>, <<\h2000, \h4010>>, <<\h0000, \h0010>>, <<\h2040, \h0010>>,
    <<\h2040, \h0010>>, <<\h0000, \h0000>>, <<\h0040, \h4010>>, <<\h2040, \h4000>>,
    <<\h0000, \h4010>>, <<\h0040, \h4000>>, <<\h2040, \h4000>>, <<\h2000, \h0000>>,
    <<\h2000, \h4000>>, <<\h0000, \h0010>>, <<\h2040, \h0010>>, <<\h0040, \h4000>>,
    <<\h2040, \h4010>>, <<\h0040, \h0000>>, <<\h0000, \h4010>>, <<\h2000, \h0010>>,
    <<\h0040, \h0000>>, <<\h2000, \h4000>>, <<\h2000, \h0000>>, <<\h0000, \h4010>>,
    <<\h2000, \h0010>>, <<\h2040, \h4010>>, <<\h0040, \h4000>>, <<\h2040, \h0000>>,
    <<\h0040, \h4010>>, <<\h2040, \h4000>>, <<\h0000, \h0000>>, <<\h2040, \h0010>>,
    <<\h0000, \h0010>>, <<\h0000, \h4000>>, <<\h2040, \h0000>>, <<\h0040, \h4010>>,
    <<\h0000, \h4000>>, <<\h0040, \h0010>>, <<\h2000, \h4010>>, <<\h0000, \h0000>>,
    <<\h2040, \h4000>>, <<\h2000, \h0000>>, <<\h0040, \h0010>>, <<\h2000, \h4010>>
  >>

SB7 ==
  <<
    <<\h0020, \h0000>>, <<\h0420, \h0002>>, <<\h0400, \h0802>>, <<\h0000, \h0000>>,
    <<\h0000, \h0800>>, <<\h0400, \h0802>>, <<\h0020, \h0802>>, <<\h0420, \h0800>>,
    <<\h0420, \h0802>>, <<\h0020, \h0000>>, <<\h0000, \h0000>>, <<\h0400, \h0002>>,
    <<\h0000, \h0002>>, <<\h0400, \h0000>>, <<\h0420, \h0002>>, <<\h0000, \h0802>>,
    <<\h0400, \h0800>>, <<\h0020, \h0802>>, <<\h0020, \h0002>>, <<\h0400, \h0800>>,
    <<\h0400, \h0002>>, <<\h0420, \h0000>>, <<\h0420, \h0800>>, <<\h0020, \h0002>>,
    <<\h0420, \h0000>>, <<\h0000, \h0800>>, <<\h0000, \h0802>>, <<\h0420, \h0802>>,
    <<\h0020, \h0800>>, <<\h0000, \h0002>>, <<\h0400, \h0000>>, <<\h0020, \h0800>>,
    <<\h0400, \h0000>>, <<\h0020, \h0800>>, <<\h0020, \h0000>>, <<\h0400, \h0802>>,
    <<\h0400, \h0802>>, <<\h0420, \h0002>>, <<\h0420, \h0002>>, <<\h0000, \h0002>>,
    <<\h0020, \h0002>>, <<\h0400, \h0000>>, <<\h0400, \h0800>>, <<\h0020, \h0000>>,
    <<\h0420, \h0800>>, <<\h0000, \h0802>>, <<\h0020, \h0802>>, <<\h0420, \h0800>>,
    <<\h0000, \h0802>>, <<\h0400, \h0002>>, <<\h0420, \h0802>>, <<\h0420, \h0000>>,
    <<\h0020, \h0800>>, <<\h0000, \h0000>>, <<\h0000, \h0002>>, <<\h0420, \h0802>>,
    <<\h0000, \h0000>>, <<\h0020, \h0802>>, <<\h0420, \h0000>>, <<\h0000, \h0800>>,
    <<\h0400, \h0002>>, <<\h0400, \h0800>>, <<\h0000, \h0800>>, <<\h0020, \h0002>>
  >>

SB8 ==
  <<
    <<\h1000, \h1040>>, <<\h0000, \h1000>>, <<\h0004, \h0000>>, <<\h1004, \h1040>>,
    <<\h1000, \h0000>>, <<\h1000, \h1040>>, <<\h0000, \h0040>>, <<\h1000, \h0000>>,
    <<\h0004, \h0040>>, <<\h1004, \h0000>>, <<\h1004, \h1040>>, <<\h0004, \h1000>>,
    <<\h1004, \h1000>>, <<\h0004, \h1040>>, <<\h0000, \h1000>>, <<\h0000, \h0040>>,
    <<\h1004, \h0000>>, <<\h1000, \h0040>>, <<\h1000, \h1000>>, <<\h0000, \h1040>>,
    <<\h0004, \h1000>>, <<\h0004, \h0040>>, <<\h1004, \h0040>>, <<\h1004, \h1000>>,
    <<\h0000, \h1040>>, <<\h0000, \h0000>>, <<\h0000, \h0000>>, <<\h1004, \h0040>>,
    <<\h1000, \h0040>>, <<\h1000, \h1000>>, <<\h0004, \h1040>>, <<\h0004, \h0000>>,
    <<\h0004, \h1040>>, <<\h0004, \h0000>>, <<\h1004, \h1000>>, <<\h0000, \h1000>>,
    <<\h0000, \h0040>>, <<\h1004, \h0040>>, <<\h0000, \h1000>>, <<\h0004, \h1040>>,
    <<\h1000, \h1000>>, <<\h0000, \h0040>>, <<\h1000, \h0040>>, <<\h1004, \h0000>>,
    <<\h1004, \h0040>>, <<\h1000, \h0000>>, <<\h0004, \h0000>>, <<\h1000, \h1040>>,
    <<\h0000, \h0000>>, <<\h1004, \h1040>>, <<\h0004, \h0040>>, <<\h1000, \h0040>>,
    <<\h1004, \h0000>>, <<\h1000, \h1000>>, <<\h1000, \h1040>>, <<\h0000, \h0000>>,
    <<\h1004, \h1040>>, <<\h0004, \h1000>>, <<\h0004, \h1000>>, <<\h0000, \h1040>>,
    <<\h0000, \h1040>>, <<\h0004, \h0040>>, <<\h1000, \h0000>>, <<\h1004, \h1000>>
  >>

(***************************************************************************)
(* PerfectRng::new and its helpers                                          *)
(***************************************************************************)
\* (range as f64).sqrt() as u64: the square root, truncated.  Exact for the
\* ranges of the model (f64 holds every integer below 2^53).
SqrtFloor[n \in Nat] == CHOOSE s \in 0..n : s * s <= n /\ (s + 1) * (s + 1) > n

\* The smallest power of two strictly above n, from p on.
PowerOfTwoAbove[p \in Nat, n \in Nat] == IF p > n THEN p ELSE PowerOfTwoAbove[2 * p, n]

\* A faulty next_power_of_two: a power of two is pushed to the next one.
next_power_of_two_above(n) == PowerOfTwoAbove[1, n]

\* The smallest power of two >= n, from p on.
PowerOfTwoFrom[p \in Nat, n \in Nat] == IF p >= n THEN p ELSE PowerOfTwoFrom[2 * p, n]

\* u64::next_power_of_two: the smallest power of two >= n (1 for n = 0).
next_power_of_two(n) == PowerOfTwoFrom[1, n]

\* count_bits: while (num >> bits) > 1 { bits += 1 }
CountBitsFrom[num \in Nat, bits \in Nat] ==
  IF (num \div 2^bits) > 1 THEN CountBitsFrom[num, bits + 1] ELSE bits

count_bits(num) == CountBitsFrom[num, 0]

\* let a = ((range as f64).sqrt() as u64).next_power_of_two();
NewA(r) == next_power_of_two(SqrtFloor[r])

\* let b = (range / a).next_power_of_two();
NewB(r) == next_power_of_two(r \div NewA(r))

(***************************************************************************)
(* PerfectRng::round                                                        *)
(***************************************************************************)
\* (t >> off) & 0x3F as an index of a 64-entry table (sequences start at 1).
SBoxIndex[t \in W64, off \in 0..63] == Val[And64[Shr64[t, off], U64[63]]] + 1

Xor32[v \in W32, w \in W32] == <<BitXor[v[1], w[1]], BitXor[v[2], w[2]]>>

\* let t = right ^ ((self.seed >> j) | (self.seed << (64 - j)));
RoundT[s \in W64, jj \in 1..63, rr \in Nat] ==
  Xor64[U64[rr], Or64[Shr64[s, jj], Shl64[s, 64 - jj]]]

\* The four lookups of an odd and of an even round.
RoundOdd[t \in W64] ==
  U32AsU64[Xor32[Xor32[Xor32[SB8[SBoxIndex[t, 0]], SB6[SBoxIndex[t, 8]]],
                       SB4[SBoxIndex[t, 16]]], SB2[SBoxIndex[t, 24]]]]

RoundEven[t \in W64] ==
  U32AsU64[Xor32[Xor32[Xor32[SB7[SBoxIndex[t, 0]], SB5[SBoxIndex[t, 8]]],
                       SB3[SBoxIndex[t, 16]]], SB1[SBoxIndex[t, 24]]]]

round(jj, rr) ==
  IF jj % 2 # 0 THEN RoundOdd[RoundT[seed, jj, rr]] ELSE RoundEven[RoundT[seed, jj, rr]]

(***************************************************************************)
(* PerfectRng::encrypt                                                      *)
(***************************************************************************)
\* let mut left = m & self.a_mask;
SplitLeft(x) == BitAnd[x, a_mask]

\* let mut right = m >> self.a_bits;
SplitRight(x) == x \div 2^a_bits

\* (left + self.round(j, right)) & mask
HalfRound(ll, rr, jj, mask) == Val[And64[Add64[U64[ll], round(jj, rr)], U64[mask]]]

\* A faulty Recombine: the left half is always the high one (no test of rounds).
RecombineLeftHigh(ll, rr) == ll * 2^a_bits + rr

\* The value returned after the loop.
Recombine(ll, rr) ==
  IF rounds % 2 # 0 THEN ll * 2^a_bits + rr ELSE rr * 2^a_bits + ll

\* One round on the pair <<left, right>>:
\* let tmp = (left + self.round(j, right)) & mask; left = right; right = tmp;
HalfStep[lr \in Nat \X Nat, jj \in Nat, mask \in Nat] ==
  <<lr[2], HalfRound(lr[1], lr[2], jj, mask)>>

\* The loop `while j <= self.rounds`, whose body runs two rounds, and the
\* recombination after it.
EncryptLoop[lr \in Nat \X Nat, jj \in Nat] ==
  IF jj <= rounds
  THEN EncryptLoop[HalfStep[HalfStep[lr, jj, a_mask], jj + 1, b_mask], jj + 2]
  ELSE Recombine(lr[1], lr[2])

encrypt(x) == EncryptLoop[<<SplitLeft(x), SplitRight(x)>>, 1]

\* A faulty WalkCond: while c > self.range
WalkCondStrict(cc) == cc > range

\* while c >= self.range
WalkCond(cc) == cc >= range

(***************************************************************************)
(* The state machine                                                        *)
(***************************************************************************)
NoSeed == <<0, 0, 0, 0>>

Init ==
  /\ range = 0 /\ seed = NoSeed /\ rounds = 0
  /\ a_bits = 0 /\ a_mask = 0 /\ b_mask = 0
  /\ pc = "new" /\ caller = "verify"
  /\ m = 0 /\ c = 0 /\ left = 0 /\ right = 0 /\ j = 0
  /\ i = 0 /\ list = <<>>

\* PerfectRng::new(r, s, k); there is no check of the arguments.
New ==
  /\ pc = "new"
  /\ \E r \in 0..MaxRange, s \in Seeds, k \in 1..MaxRounds :
       /\ range' = r /\ seed' = s /\ rounds' = k
       /\ a_bits' = count_bits(NewA(r))
       /\ a_mask' = NewA(r) - 1
       /\ b_mask' = NewB(r) - 1
  /\ pc' = "built"
  /\ UNCHANGED <<caller, m, c, left, right, j, i, list>>

\* tests::verify: let mut list = vec![0; range as usize]; for i in 0..range
VerifyStart ==
  /\ pc = "built"
  /\ list' = [x \in 0..(range - 1) |-> 0]
  /\ i' = 0
  /\ pc' = "verify"
  /\ UNCHANGED <<range, seed, rounds, a_bits, a_mask, b_mask, caller, m, c, left, right, j>>

\* shuffle(x) is entered: let mut c = self.encrypt(m) begins.
Enter(x, who) ==
  /\ m' = x /\ caller' = who
  /\ left' = SplitLeft(x) /\ right' = SplitRight(x) /\ j' = 1
  /\ pc' = "while"
  /\ UNCHANGED <<range, seed, rounds, a_bits, a_mask, b_mask, c, i, list>>

\* tests::verify: randomizer.shuffle(i) for the next i.
VerifyCall == pc = "verify" /\ i < range /\ Enter(i, "verify")

\* tests::verify: the loop over 0..range is over.
VerifyDone ==
  /\ pc = "verify" /\ i >= range
  /\ pc' = "done"
  /\ UNCHANGED <<range, seed, rounds, a_bits, a_mask, b_mask, caller, m, c, left, right, j, i, list>>

\* Any later call of the public shuffle, with any argument.
AnyCall == pc = "done" /\ \E x \in 0..MaxInput : Enter(x, "any")

\* encrypt: the loop test passes and the first round of the body runs.
FirstHalf ==
  /\ pc = "while" /\ j <= rounds
  /\ left' = right
  /\ right' = HalfRound(left, right, j, a_mask)
  /\ j' = j + 1
  /\ pc' = "second"
  /\ UNCHANGED <<range, seed, rounds, a_bits, a_mask, b_mask, caller, m, c, i, list>>

\* encrypt: the second round of the body runs, with no test of j before it.
SecondHalf ==
  /\ pc = "second"
  /\ left' = right
  /\ right' = HalfRound(left, right, j, b_mask)
  /\ j' = j + 1
  /\ pc' = "while"
  /\ UNCHANGED <<range, seed, rounds, a_bits, a_mask, b_mask, caller, m, c, i, list>>

\* encrypt: the loop test fails; the halves are recombined and returned to
\* shuffle, which assigns the value to c.  encrypt's locals go out of scope.
EncryptReturn ==
  /\ pc = "while" /\ j > rounds
  /\ c' = Recombine(left, right)
  /\ left' = 0 /\ right' = 0 /\ j' = 0
  /\ pc' = "walk"
  /\ UNCHANGED <<range, seed, rounds, a_bits, a_mask, b_mask, caller, m, i, list>>

\* shuffle: while c >= self.range { c = self.encrypt(c) }
WalkAgain ==
  /\ pc = "walk" /\ WalkCond(c)
  /\ left' = SplitLeft(c) /\ right' = SplitRight(c) /\ j' = 1
  /\ pc' = "while"
  /\ UNCHANGED <<range, seed, rounds, a_bits, a_mask, b_mask, caller, m, c, i, list>>

\* shuffle: the loop ends and c is returned.
ShuffleReturn ==
  /\ pc = "walk" /\ ~WalkCond(c)
  /\ pc' = "ret"
  /\ UNCHANGED <<range, seed, rounds, a_bits, a_mask, b_mask, caller, m, c, left, right, j, i, list>>

\* tests::verify: list[x] += 1, and the next i.
VerifyCount ==
  /\ pc = "ret" /\ caller = "verify"
  /\ list' = [list EXCEPT ![c] = @ + 1]
  /\ i' = i + 1
  /\ m' = 0 /\ c' = 0
  /\ pc' = "verify"
  /\ UNCHANGED <<range, seed, rounds, a_bits, a_mask, b_mask, caller, left, right, j>>

\* The later call has returned its value.
AnyReturn ==
  /\ pc = "ret" /\ caller = "any"
  /\ m' = 0 /\ c' = 0
  /\ pc' = "done"
  /\ UNCHANGED <<range, seed, rounds, a_bits, a_mask, b_mask, caller, left, right, j, i, list>>

Next ==
  \/ New
  \/ VerifyStart
  \/ VerifyCall
  \/ VerifyDone
  \/ AnyCall
  \/ FirstHalf
  \/ SecondHalf
  \/ EncryptReturn
  \/ WalkAgain
  \/ ShuffleReturn
  \/ VerifyCount
  \/ AnyReturn

Spec == Init /\ [][Next]_vars

\* The code is sequential and never waits: a step that can be taken is taken.
FairSpec == Spec /\ WF_vars(Next)

(***************************************************************************)
(* Properties                                                               *)
(***************************************************************************)
\* A generator has been constructed.
Built == pc # "new"

\* The size of the domain the Feistel network works on, 2^(a_bits + b_bits).
SupersetSize == (a_mask + 1) * (b_mask + 1)

Superset == 0..(SupersetSize - 1)

\* encrypt maps the superset domain into itself and is one-to-one on it.
EncryptPermutes ==
  /\ \A x \in Superset : encrypt(x) \in Superset
  /\ \A x, y \in Superset : x # y => encrypt(x) # encrypt(y)

\* tests::verify's final assertion: every value of [0, range) was produced
\* exactly once.
EveryOutputOnce == \A x \in 0..(range - 1) : list[x] = 1

\* C1: for every generator with range > 0, shuffle restricted to [0, range)
\* is a bijection onto [0, range): when the loop of tests::verify is over,
\* every value of [0, range) has been returned exactly once.
C1_ShuffleIsBijection == (pc = "done" /\ range > 0) => EveryOutputOnce

\* C2: new(0, seed, rounds) is rejected: no generator with range = 0 is ever
\* constructed.
C2_ZeroRangeRejected == ~(Built /\ range = 0)

\* C3: shuffle(i) with i >= range is rejected at the call: no round is run
\* for it and no value is returned for it.
C3_OutOfRangeRejected ==
  (range > 0 /\ m >= range) => pc \notin {"while", "second", "walk", "ret"}

\* C4: the cycle walk terminates: for range > 0, every call shuffle(i) with
\* i in [0, range) returns, so the loop over 0..range of tests::verify ends.
C4_CycleWalkTerminates == (pc = "built" /\ range > 0) ~> (pc = "done")

\* C5: for range > 0 and a valid input i in [0, range), the value returned by
\* shuffle(i) is strictly less than range.
C5_ShuffleBelowRange == (pc = "ret" /\ range > 0 /\ m < range) => c < range

\* C5 witness: a valid call returns after it had to walk (encrypt(m) was not
\* below range).
C5_Witness ==
  /\ pc = "ret" /\ caller = "verify" /\ range > 0 /\ m < range
  /\ encrypt(m) >= range /\ c < range

\* C6: with range = 1 the derived parameters are a_bits = 0, a_mask = 0,
\* b_mask = 0, and shuffle(0) returns 0.
C6_RangeOne ==
  (Built /\ range = 1) =>
    /\ a_bits = 0 /\ a_mask = 0 /\ b_mask = 0
    /\ (pc = "ret" /\ m = 0) => c = 0

\* C6 witness: shuffle(0) has returned 0 on a generator with range = 1.
C6_Witness == pc = "ret" /\ range = 1 /\ m = 0 /\ c = 0 /\ a_mask = 0 /\ b_mask = 0

\* C7: for every generator with range > 0 (rounds odd or even), encrypt maps
\* [0, (a_mask+1)*(b_mask+1)) into itself and is one-to-one on it.
C7_EncryptPermutesSuperset == (pc = "built" /\ range > 0) => EncryptPermutes

\* C8: for every range > 0 the parameters derived by new satisfy
\* (a_mask + 1) * (b_mask + 1) >= range.
C8_SupersetCoversRange == (Built /\ range > 0) => SupersetSize >= range

\* C9: one call of encrypt applies exactly `rounds` rounds: the round function
\* is never invoked with an index j > rounds, and the loop is left with
\* j = rounds + 1.
C9_ExactlyRoundsRounds ==
  /\ pc = "second" => j <= rounds
  /\ pc = "while" => j <= rounds + 1

\* The case of C10: an even number of rounds and a superset that covers range.
EvenCase == Built /\ range > 0 /\ rounds % 2 = 0 /\ SupersetSize >= range

\* C10: when rounds is even and (a_mask+1)*(b_mask+1) >= range > 0, encrypt is
\* a permutation of the superset domain, the cycle walk of shuffle terminates
\* for every i in [0, range), and shuffle is a bijection of [0, range).
C10_EvenRoundsBijection ==
  /\ []((EvenCase /\ pc = "built") => EncryptPermutes)
  /\ []((EvenCase /\ pc = "done") => EveryOutputOnce)
  /\ ((EvenCase /\ pc = "built") ~> (pc = "done"))

\* C10 witness: the loop of tests::verify has ended on a generator with even
\* rounds whose superset is strictly larger than range (so the walk was
\* needed), with every output counted once.
C10_Witness ==
  /\ pc = "done" /\ EvenCase /\ range > 2 /\ SupersetSize > range
  /\ \E x \in 0..(range - 1) : encrypt(x) >= range
  /\ EveryOutputOnce

====
